---- MODULE Spec2Model ----
(***************************************************************************)
(* Model of Proyectus.py: the two TSP solvers busqueda_exhaustiva and      *)
(* vecino_mas_cercano over a precomputed distance matrix, and the          *)
(* comparison step of the script (gap).                                    *)
(*                                                                         *)
(* Distances are modelled as naturals in 0..MaxDist; the matrix is the one *)
(* the script builds: square, symmetric, zero on the diagonal.  Python     *)
(* lists are 0-indexed: matriz is a function over 0..m-1; routes are TLA+  *)
(* sequences (positions 1..Len) whose elements are 0-based indices.        *)
(***************************************************************************)
EXTENDS Integers, Sequences, FiniteSets

\* ------------------------------------------------------------------ bounds
MaxN == 4
MaxDist == 1

\* ------------------------------------------------------- python constants
\* float('inf'): strictly greater than every finite distance (see Menor).
Inf == 0 - 1
\* None for a route (mejor_ruta = None) and for a name not yet bound.
None == << >>
\* a float name not yet bound
SinValor == 0 - 2

VARIABLES
    n,                \* module-level n = len(nombres)
    matriz,           \* matriz_distancias, the argument of both solvers
    pc,               \* position in section 4 of the script
    ruta_optima,      \* results of busqueda_exhaustiva
    dist_optima,
    no_visitadas,     \* locals of vecino_mas_cercano
    ruta,
    actual,
    distancia_total,
    ruta_nn,          \* results of vecino_mas_cercano
    dist_nn,
    gap,              \* gap of line 129
    error             \* name of the exception that ended the run, or "none"

vars == << n, matriz, pc, ruta_optima, dist_optima, no_visitadas, ruta,
           actual, distancia_total, ruta_nn, dist_nn, gap, error >>

\* ----------------------------------------------------------- python helpers
\* len(matriz)
len(mat) == Cardinality(DOMAIN mat)

\* a < b on floats where either side may be float('inf')
Menor(a, b) == IF a = Inf THEN FALSE ELSE IF b = Inf THEN TRUE ELSE a < b

\* range(a, b) as the sequence a, a+1, ..., b-1 (empty when b <= a)
range(a, b) == [i \in 1..(b - a) |-> a + i - 1]

\* a sequence without its i-th element
SinPos(s, i) == [j \in 1..(Len(s) - 1) |-> IF j < i THEN s[j] ELSE s[j + 1]]

\* itertools.permutations(pool): all orderings of pool, in lexicographic
\* order of the positions in pool.
RECURSIVE permutations(_), PermDesde(_, _)
PermDesde(pool, i) ==
    IF i > Len(pool) THEN << >>
    ELSE LET resto == permutations(SinPos(pool, i))
         IN  [j \in 1..Len(resto) |-> << pool[i] >> \o resto[j]]
             \o PermDesde(pool, i + 1)

permutations(pool) ==
    IF Len(pool) = 0 THEN << << >> >> ELSE PermDesde(pool, 1)

\* itertools.permutations(range(1, nn)) for every value n can take, computed
\* once
PermutacionesDe == [nn \in 0..(MaxN + 1) |-> permutations(range(1, nn))]

\* ------------------------------------------------------ distance matrix
\* unordered pairs of distinct indices
Pares(m) == {p \in (0..(m - 1)) \X (0..(m - 1)) : p[1] < p[2]}

\* the matrix of lines 34-37 for m points whose pairwise distances are w
MatrizDe(m, w) ==
    [i \in 0..(m - 1) |->
        [j \in 0..(m - 1) |->
            IF i = j THEN 0
            ELSE IF i < j THEN w[<< i, j >>] ELSE w[<< j, i >>]]]

\* --------------------------------------------------- busqueda_exhaustiva
\* every index of the route is a valid index of matriz (else IndexError)
IndicesValidos(r, mat) == \A k \in 1..Len(r) : r[k] \in DOMAIN mat

\* ruta_actual = [0] + list(perm) + [0]
RutaCerrada(perm) == << 0 >> \o perm \o << 0 >>

\* lines 61-63: sum of matriz[r[k]][r[k+1]] for k in range(len(r) - 1)
RECURSIVE SumaTramos(_, _, _)
SumaTramos(r, mat, k) ==
    IF k >= Len(r) THEN 0
    ELSE mat[r[k]][r[k + 1]] + SumaTramos(r, mat, k + 1)

\* variant: the sum starts at the second edge
DistanciaRutaSinPrimerTramo(r, mat) == SumaTramos(r, mat, 2)

DistanciaRuta(r, mat) == SumaTramos(r, mat, 1)

\* variant: only the first route examined is ever kept
MejoraSoloPrimera(distancia_actual, min_distancia) == min_distancia = Inf

\* variant: <= instead of <, an equal-cost later route replaces the best
MejoraOIgual(distancia_actual, min_distancia) ==
    ~Menor(min_distancia, distancia_actual)

\* line 66: if distancia_actual < min_distancia
Mejora(distancia_actual, min_distancia) == Menor(distancia_actual, min_distancia)

\* lines 66-68: est is (mejor_ruta, min_distancia) before the comparison
Actualizar(est, ruta_actual, distancia_actual) ==
    IF Mejora(distancia_actual, est.dist)
    THEN [ruta |-> ruta_actual, dist |-> distancia_actual, error |-> "none"]
    ELSE est

\* one iteration of the for loop, lines 58-68; an exception raised by an
\* earlier iteration has already left the loop
Iterar(est, ruta_actual, mat) ==
    IF est.error # "none" THEN est
    ELSE IF ~IndicesValidos(ruta_actual, mat)
    THEN [ruta |-> est.ruta, dist |-> est.dist, error |-> "IndexError"]
    ELSE Actualizar(est, ruta_actual, DistanciaRuta(ruta_actual, mat))

\* lines 53-70: F[k] is (mejor_ruta, min_distancia) after k permutations
Explorar(perms, mat) ==
    LET F[k \in 0..Len(perms)] ==
            IF k = 0 THEN [ruta |-> None, dist |-> Inf, error |-> "none"]
            ELSE Iterar(F[k - 1], RutaCerrada(perms[k]), mat)
    IN  F[Len(perms)]

\* busqueda_exhaustiva(nombres, matriz) when the module-level n is nn
busqueda_exhaustiva(nn, mat) == Explorar(PermutacionesDe[nn], mat)

\* ---------------------------------------------------- vecino_mas_cercano
\* iteration order of the set no_visitadas: a set of small ints built by
\* set(range(1, n)) iterates in ascending order, and remove keeps the
\* relative order of the rest.
RECURSIVE IterOrden(_)
IterOrden(S) ==
    IF S = {} THEN << >>
    ELSE LET m == CHOOSE x \in S : \A y \in S : x <= y
         IN  << m >> \o IterOrden(S \ {m})

\* variant: <= instead of <, the last of the equally close wins
MasCercaOIgual(d, min_dist_local) == ~Menor(min_dist_local, d)

\* line 95: if d < min_dist_local
MasCerca(d, min_dist_local) == Menor(d, min_dist_local)

\* the inner for loop of lines 93-97 from the i-th element of orden on
RECURSIVE BuscarCercana(_, _, _, _, _, _)
BuscarCercana(orden, i, act, mat, mas_cercana, min_dist_local) ==
    IF i > Len(orden)
    THEN [mas_cercana |-> mas_cercana, min_dist_local |-> min_dist_local,
          error |-> "none"]
    ELSE LET vecina == orden[i]
         IN  IF act \notin DOMAIN mat \/ vecina \notin DOMAIN mat
             THEN [mas_cercana |-> mas_cercana,
                   min_dist_local |-> min_dist_local, error |-> "IndexError"]
             ELSE LET d == mat[act][vecina]
                  IN  IF MasCerca(d, min_dist_local)
                      THEN BuscarCercana(orden, i + 1, act, mat, vecina, d)
                      ELSE BuscarCercana(orden, i + 1, act, mat,
                                         mas_cercana, min_dist_local)

\* variant: the loop stops with one index left
QuedanMasDeUna(nv) == Cardinality(nv) > 1

\* line 88: while no_visitadas
QuedanNoVisitadas(nv) == nv # {}

\* variant: the closing edge is not charged
TramoRegresoGratis(act, mat) == 0

\* line 106: the closing edge matriz[actual][0]
TramoRegreso(act, mat) == mat[act][0]

\* variant: the route is returned open
CerrarRutaOmitido(r) == r

\* line 107: ruta.append(0)
CerrarRuta(r) == Append(r, 0)

\* vecino_mas_cercano from the state (nv, r, act, total) of its while loop
RECURSIVE Bucle(_, _, _, _, _)
Bucle(nv, r, act, total, mat) ==
    IF QuedanNoVisitadas(nv)
    THEN LET b == BuscarCercana(IterOrden(nv), 1, act, mat, Inf, Inf)
         IN  IF b.error # "none"
             THEN [ruta |-> None, dist |-> SinValor, error |-> b.error]
             ELSE Bucle(nv \ {b.mas_cercana}, Append(r, b.mas_cercana),
                        b.mas_cercana, total + b.min_dist_local, mat)
    ELSE IF act \notin DOMAIN mat \/ 0 \notin DOMAIN mat
         THEN [ruta |-> None, dist |-> SinValor, error |-> "IndexError"]
         ELSE [ruta |-> CerrarRuta(r), dist |-> total + TramoRegreso(act, mat),
               error |-> "none"]

\* set(range(1, n))
NoVisitadasIniciales(nn) == {range(1, nn)[i] : i \in 1..Len(range(1, nn))}

\* vecino_mas_cercano(nombres, matriz) when the module-level n is nn
vecino_mas_cercano(nn, mat) ==
    Bucle(NoVisitadasIniciales(nn), << 0 >>, 0, 0, mat)

\* ------------------------------------------------------------ the script
GapSinCalcular == [tipo |-> "sin_calcular", num |-> 0, den |-> 1]

Init ==
    /\ \E m \in 0..MaxN : \E w \in [Pares(m) -> 0..MaxDist] :
          /\ matriz = MatrizDe(m, w)
          /\ n = m
    /\ pc = "exhaustiva"
    /\ ruta_optima = None
    /\ dist_optima = SinValor
    /\ no_visitadas = {}
    /\ ruta = None
    /\ actual = 0
    /\ distancia_total = 0
    /\ ruta_nn = None
    /\ dist_nn = SinValor
    /\ gap = GapSinCalcular
    /\ error = "none"

\* line 118: ruta_optima, dist_optima = busqueda_exhaustiva(nombres, matriz)
BusquedaExhaustiva ==
    /\ pc = "exhaustiva"
    /\ \E res \in {busqueda_exhaustiva(n, matriz)} :
           IF res.error # "none"
           THEN /\ pc' = "error"
                /\ error' = res.error
                /\ UNCHANGED << ruta_optima, dist_optima >>
           ELSE /\ pc' = "vecino"
                /\ ruta_optima' = res.ruta
                /\ dist_optima' = res.dist
                /\ UNCHANGED error
    /\ UNCHANGED << n, matriz, no_visitadas, ruta, actual, distancia_total,
                    ruta_nn, dist_nn, gap >>

\* line 124 enters vecino_mas_cercano: lines 82-85
VecinoInicio ==
    /\ pc = "vecino"
    /\ no_visitadas' = NoVisitadasIniciales(n)
    /\ ruta' = << 0 >>
    /\ actual' = 0
    /\ distancia_total' = 0
    /\ pc' = "bucle"
    /\ UNCHANGED << n, matriz, ruta_optima, dist_optima, ruta_nn, dist_nn,
                    gap, error >>

\* one iteration of the while loop, lines 88-103
VecinoPaso ==
    /\ pc = "bucle"
    /\ QuedanNoVisitadas(no_visitadas)
    /\ \E orden \in {IterOrden(no_visitadas)} :
       \E b \in {BuscarCercana(orden, 1, actual, matriz, Inf, Inf)} :
           IF b.error # "none"
           THEN /\ pc' = "error"
                /\ error' = b.error
                /\ UNCHANGED << no_visitadas, ruta, actual, distancia_total >>
           ELSE /\ ruta' = Append(ruta, b.mas_cercana)
                /\ no_visitadas' = no_visitadas \ {b.mas_cercana}
                /\ distancia_total' = distancia_total + b.min_dist_local
                /\ actual' = b.mas_cercana
                /\ UNCHANGED << pc, error >>
    /\ UNCHANGED << n, matriz, ruta_optima, dist_optima, ruta_nn, dist_nn,
                    gap >>

\* loop exit, lines 106-109, and the assignment of line 124
VecinoRetorno ==
    /\ pc = "bucle"
    /\ ~QuedanNoVisitadas(no_visitadas)
    /\ IF actual \notin DOMAIN matriz \/ 0 \notin DOMAIN matriz
       THEN /\ pc' = "error"
            /\ error' = "IndexError"
            /\ UNCHANGED << ruta, distancia_total, ruta_nn, dist_nn >>
       ELSE /\ distancia_total' = distancia_total + TramoRegreso(actual, matriz)
            /\ ruta' = CerrarRuta(ruta)
            /\ ruta_nn' = ruta'
            /\ dist_nn' = distancia_total'
            /\ pc' = "gap"
            /\ UNCHANGED error
    /\ UNCHANGED << n, matriz, ruta_optima, dist_optima, no_visitadas,
                    actual, gap >>

\* line 129: gap = ((dist_nn - dist_optima) / dist_optima) * 100
\* kept as the exact fraction num/den; a zero divisor raises.
CalcularGap ==
    /\ pc = "gap"
    /\ IF dist_optima = 0
       THEN /\ pc' = "error"
            /\ error' = "ZeroDivisionError"
            /\ UNCHANGED gap
       ELSE /\ gap' = [tipo |-> "valor", num |-> (dist_nn - dist_optima) * 100,
                       den |-> dist_optima]
            /\ pc' = "reporte"
            /\ UNCHANGED error
    /\ UNCHANGED << n, matriz, ruta_optima, dist_optima, no_visitadas, ruta,
                    actual, distancia_total, ruta_nn, dist_nn >>

Next ==
    \/ BusquedaExhaustiva
    \/ VecinoInicio
    \/ VecinoPaso
    \/ VecinoRetorno
    \/ CalcularGap

Spec == Init /\ [][Next]_vars

\* the script is one sequential thread: inside vecino_mas_cercano the next
\* statement is always executed
FairSpec == Spec /\ WF_vars(VecinoPaso) /\ WF_vars(VecinoRetorno)

\* ------------------------------------------------- properties: vocabulary
\* busqueda_exhaustiva has returned (line 118 completed)
ExhaustivaRetorno ==
    \/ pc \in {"vecino", "bucle", "gap", "reporte"}
    \/ pc = "error" /\ error = "ZeroDivisionError"

\* vecino_mas_cercano has returned (line 124 completed)
VecinoRetornado ==
    \/ pc \in {"gap", "reporte"}
    \/ pc = "error" /\ error = "ZeroDivisionError"

\* all Hamiltonian cycles through 0..nn-1 that start and end at 0
Ciclos(nn) ==
    {<< 0 >> \o f \o << 0 >> :
        f \in {g \in [1..(nn - 1) -> 1..(nn - 1)] :
                  \A a, b \in 1..(nn - 1) : g[a] = g[b] => a = b}}

CiclosDe == [nn \in 0..(MaxN + 1) |-> Ciclos(nn)]

\* total cost of a route: the sum of its first k consecutive edge weights
RECURSIVE CostoTramos(_, _, _)
CostoTramos(r, mat, k) ==
    IF k = 0 THEN 0
    ELSE CostoTramos(r, mat, k - 1) + mat[r[k]][r[k + 1]]

Costo(r, mat) == CostoTramos(r, mat, Len(r) - 1)

\* the Route invariant of the data model for nn points
RouteInv(r, nn) ==
    /\ Len(r) = nn + 1
    /\ r[1] = 0
    /\ r[nn + 1] = 0
    /\ \A v \in 1..(nn - 1) : Cardinality({k \in 2..nn : r[k] = v}) = 1
    /\ \A k \in 2..nn : r[k] \in 1..(nn - 1)

\* a precedes or equals b in lexicographic order (equal lengths)
LexLeq(a, b) ==
    \/ a = b
    \/ \E k \in 1..Len(a) :
          /\ a[k] < b[k]
          /\ \A j \in 1..(k - 1) : a[j] = b[j]

Reverso(r) == [k \in 1..Len(r) |-> r[Len(r) + 1 - k]]

\* ------------------------------------------------------------------ C1
\* C1: for n >= 2, the cost returned by busqueda_exhaustiva is the cost of a
\* Hamiltonian cycle [0, p_1, ..., p_{n-1}, 0] and no such cycle is strictly
\* cheaper.
C1_ExhaustivaOptima ==
    (pc = "vecino" /\ n >= 2) =>
        /\ dist_optima # Inf
        /\ \E r \in CiclosDe[n] : Costo(r, matriz) = dist_optima
        /\ \A r \in CiclosDe[n] : ~(Costo(r, matriz) < dist_optima)

\* the optimum is found on four points where the first route enumerated is
\* not optimal
C1_Witness ==
    /\ pc = "vecino"
    /\ n = 4
    /\ dist_optima < Costo(<< 0, 1, 2, 3, 0 >>, matriz)

\* ------------------------------------------------------------------ C2
\* C2: for n >= 2, the routes returned by both solvers have length n+1,
\* start and end at 0 and hold each of 1..n-1 exactly once in between.
C2_RutasValidas ==
    n >= 2 =>
        /\ ExhaustivaRetorno => RouteInv(ruta_optima, n)
        /\ VecinoRetornado => RouteInv(ruta_nn, n)

\* both solvers have returned on four points, with different routes
C2_Witness ==
    /\ pc = "gap"
    /\ n = 4
    /\ ruta_nn # ruta_optima
    /\ ruta_nn # Reverso(ruta_optima)

\* ------------------------------------------------------------------ C3
\* C3: for n >= 2, on the same matrix the cost of busqueda_exhaustiva is at
\* most the cost of vecino_mas_cercano.
C3_ExhaustivaNoPeor ==
    (VecinoRetornado /\ n >= 2) =>
        /\ dist_optima # Inf
        /\ dist_optima <= dist_nn

\* the heuristic returned a strictly worse tour
C3_Witness ==
    /\ pc = "gap"
    /\ n >= 2
    /\ dist_optima < dist_nn

\* ------------------------------------------------------------------ C4
\* C4: with n = 0 or n = 1 both solvers end in InvalidInputError instead of
\* returning.
C4_InvalidInput ==
    n < 2 =>
        /\ pc # "exhaustiva" => (pc = "error" /\ error = "InvalidInputError")
        /\ ~VecinoRetornado

\* ------------------------------------------------------------------ C5
\* C5: when the exact cost is 0 the comparison does not raise: gap is
\* reported as "N/A" and the run goes on to the report.
C5_GapNA ==
    (VecinoRetornado /\ pc # "gap" /\ dist_optima = 0) =>
        /\ pc = "reporte"
        /\ gap.tipo = "N/A"

\* ------------------------------------------------------------------ C6
\* C6: the result of each solver depends on its arguments only: a call with
\* the same matriz under any other value n2 of the module-level n returns
\* the same route and cost.
C6_SoloArgumentos ==
    \A n2 \in 0..(MaxN + 1) :
        /\ pc = "vecino" =>
              busqueda_exhaustiva(n2, matriz) =
                  [ruta |-> ruta_optima, dist |-> dist_optima, error |-> "none"]
        /\ pc = "gap" =>
              vecino_mas_cercano(n2, matriz) =
                  [ruta |-> ruta_nn, dist |-> dist_nn, error |-> "none"]

\* ------------------------------------------------------------------ C7
\* C7: for each solver the returned cost is the sum of the n consecutive edge
\* weights of the route it returns.
C7_CostoDeLaRuta ==
    n >= 2 =>
        /\ ExhaustivaRetorno =>
              /\ Len(ruta_optima) = n + 1
              /\ dist_optima = Costo(ruta_optima, matriz)
        /\ VecinoRetornado =>
              /\ Len(ruta_nn) = n + 1
              /\ dist_nn = Costo(ruta_nn, matriz)

\* both solvers returned on four points with a positive first edge, a
\* positive closing edge and different costs
C7_Witness ==
    /\ pc = "gap"
    /\ n = 4
    /\ matriz[ruta_nn[1]][ruta_nn[2]] > 0
    /\ matriz[ruta_nn[4]][ruta_nn[5]] > 0
    /\ matriz[ruta_optima[1]][ruta_optima[2]] > 0
    /\ dist_nn > dist_optima

\* ------------------------------------------------------------------ C8
\* C8: the index appended by an iteration of the while loop is an unvisited
\* index at minimal distance from the current position, and it is the first
\* such index in the iteration order of no_visitadas.
C8_VecinoMasCercano ==
    [][(pc = "bucle" /\ pc' = "bucle" /\ ruta' # ruta) =>
          LET v == ruta'[Len(ruta')]
              orden == IterOrden(no_visitadas)
          IN  /\ ruta' = Append(ruta, v)
              /\ v \in no_visitadas
              /\ \A u \in no_visitadas :
                    matriz[actual][v] <= matriz[actual][u]
              /\ \A i, j \in 1..Len(orden) :
                    (orden[j] = v /\ i < j) =>
                        matriz[actual][orden[i]] > matriz[actual][v]]_vars

\* an iteration has chosen among several equally close unvisited indices
C8_Witness ==
    /\ pc = "bucle"
    /\ n = 4
    /\ Len(ruta) >= 2
    /\ \E u \in no_visitadas :
          matriz[ruta[Len(ruta) - 1]][u] =
              matriz[ruta[Len(ruta) - 1]][ruta[Len(ruta)]]
    /\ \E u \in no_visitadas :
          matriz[ruta[Len(ruta) - 1]][u] >
              matriz[ruta[Len(ruta) - 1]][ruta[Len(ruta)]]

\* ------------------------------------------------------------------ C9
\* C9: among the routes of minimal cost busqueda_exhaustiva returns the one
\* enumerated first, which is the lexicographically smallest.
C9_PrimeraEntreIguales ==
    (pc = "vecino" /\ n >= 2) =>
        /\ Len(ruta_optima) = n + 1
        /\ \A r \in CiclosDe[n] :
              Costo(r, matriz) = dist_optima => LexLeq(ruta_optima, r)

\* several optimal routes besides the returned one and its reverse, and the
\* returned one is not the first route enumerated
C9_Witness ==
    /\ pc = "vecino"
    /\ n = 4
    /\ ruta_optima # << 0, 1, 2, 3, 0 >>
    /\ \E r \in CiclosDe[n] :
          /\ r # ruta_optima
          /\ r # Reverso(ruta_optima)
          /\ Costo(r, matriz) = dist_optima

\* ----------------------------------------------------------------- C10
\* C10: for n >= 2 every iteration of the while loop removes exactly one
\* index from no_visitadas and appends one to ruta; the loop is left only
\* with no_visitadas empty, after n-1 iterations, and that step adds the
\* closing edge to index 0 and returns; and the call does return.
C10_VecinoTermina ==
    /\ [][(pc = "bucle" /\ n >= 2) =>
            IF no_visitadas # {}
            THEN /\ pc' = "bucle"
                 /\ Cardinality(no_visitadas') = Cardinality(no_visitadas) - 1
                 /\ no_visitadas' \subseteq no_visitadas
                 /\ Len(ruta') = Len(ruta) + 1
            ELSE /\ pc' = "gap"
                 /\ Len(ruta) = n
                 /\ ruta_nn' = Append(ruta, 0)
                 /\ dist_nn' = distancia_total + matriz[actual][0]]_vars
    /\ (pc = "bucle" /\ n >= 2) ~> (pc = "gap" /\ no_visitadas = {})

\* the loop has run its n-1 iterations on four points and returned
C10_Witness ==
    /\ pc = "gap"
    /\ n = 4
    /\ no_visitadas = {}
    /\ Len(ruta_nn) = 5
====
